---- MODULE Spec2Model ----
(***************************************************************************)
(* A model of aln-technology/streamlit-cs-rag-demo:                        *)
(*   - the document chat page (streamlit_datasheet_rag.py): the script is  *)
(*     rerun top to bottom on every interaction of a session; sessions     *)
(*     share the server's working directory "uploaded_docs";               *)
(*   - the PMI extraction page (streamlit_pmi_extraction.py): text         *)
(*     collection, regex pass, two raw model passes, merge call,           *)
(*     annotation and rendering;                                           *)
(*   - the field classifiers of extraction_config.py.                      *)
(* Strings whose characters matter (upper(), strip(), "in") are sequences  *)
(* of one-character strings.                                               *)
(***************************************************************************)
EXTENDS Integers, Sequences, FiniteSets, TLC

VARIABLES
    \* ---- chat page: st.session_state and widgets, one entry per session
    messages,        \* st.session_state.messages
    query_engine,    \* st.session_state.query_engine
    question_count,  \* st.session_state.question_count
    uploaded_files,  \* value of the st.file_uploader widget
    disk,            \* the directory "uploaded_docs" of the server process
    pc,              \* position of the session's current script run
    towrite,         \* files index_documents has still to write
    written,         \* history: files the session's index_documents calls wrote
    prompt,          \* value st.chat_input returns in the current run
    prompt_no,       \* history: prompts that reached the chat input handler
    query_calls,     \* history: calls of query_engine.query
    last_outcome,    \* history: what the handler showed for the last prompt
    \* ---- extraction page: the locals of one run of the script
    pdf,             \* the uploaded PDF: its pages, each the lines of its text
    ppc,             \* position of the run
    all_text,        \* all_text
    note_lines,      \* note_lines
    regex_extracted, \* regex_extracted
    notes_data,      \* notes_data
    doc_data,        \* doc_data
    merge_prompt,    \* what merge_prompt["content"] carries
    merged_fields,   \* merged_fields
    rendered,        \* the sections render_section has displayed
    calls,           \* history: the client.responses.create calls issued
    failed_calls,    \* history: the calls that raised or returned no JSON
    raised,          \* the statement an unhandled exception ended the run at
    \* ---- field classifiers
    value,           \* the value handed to a classifier
    result,          \* what the classifier returned
    cpc,             \* whether the classifier has run
    \* ---- source locator: one call of find_text_locations
    loc_page,        \* page.extract_words(): the words of the page, in page order
    loc_text,        \* the argument text
    loc_context,     \* the argument context
    best_match,      \* best_match
    location,        \* what the call returned
    lpc              \* position of the call

chatVars == <<messages, query_engine, question_count, uploaded_files, disk,
              pc, towrite, written, prompt, prompt_no, query_calls, last_outcome>>

pipeVars == <<pdf, ppc, all_text, note_lines, regex_extracted, notes_data, doc_data,
              merge_prompt, merged_fields, rendered, calls, failed_calls, raised>>

classVars == <<value, result, cpc>>

locVars == <<loc_page, loc_text, loc_context, best_match, location, lpc>>

vars == <<chatVars, pipeVars, classVars, locVars>>

-----------------------------------------------------------------------------
(* Bounds of the chat model *)

\* prompts of one session that end without an answer (no document, failed query)
MaxUnanswered == 2
\* prompts of one session rejected at the limit
MaxRejected == 2
\* prompts of one session when two sessions run side by side
MaxSessionPrompts == 1
\* pages of an uploaded PDF
MaxPages == 2
\* fragments a classified value is put together from
MaxParts == 3
\* the numeric sizes written in one diameter or thread value
MaxNumbers == 2
\* the words of a page
MaxWords == 3

-----------------------------------------------------------------------------
(* Chat page *)

Sessions == {"s1", "s2"}
FileNames == {"a.pdf", "b.txt"}
Prompts == {"q1"}
NoPrompt == "none"
NoFile == "absent"

\* the question limit of the chat input handler
LIMIT == 15

\* An uploaded file: its name and its bytes; the bytes of a file are named
\* after the session that uploaded it.
FilesOf(s) == {[name |-> n, content |-> s] : n \in FileNames}

\* st.session_state.query_engine = None
None == [built |-> FALSE, docs |-> {}]

\* SimpleDirectoryReader("uploaded_docs").load_data(): every file of the directory
load_data(d) == {[name |-> n, content |-> d[n]] : n \in {m \in FileNames : d[m] # NoFile}}

\* index.as_query_engine() over the documents read
as_query_engine(docs) == [built |-> TRUE, docs |-> docs]

\* response.response of query_engine.query(prompt)
Response(p) == "answer"

LimitReached_gt(count) == count > LIMIT

question_count_kept(count) == count

question_count_incremented_twice(count) == count + 2

\* st.session_state.question_count += 1
question_count_incremented(count) == count + 1

\* the test of the chat input handler: question_count >= 15
LimitReached(count) == count >= LIMIT

Unanswered(s) == prompt_no[s] - question_count[s]

InitChat ==
    /\ messages = [s \in Sessions |-> <<>>]
    /\ query_engine = [s \in Sessions |-> None]
    /\ question_count = [s \in Sessions |-> 0]
    /\ uploaded_files = [s \in Sessions |-> {}]
    /\ disk = [n \in FileNames |-> NoFile]
    /\ pc = [s \in Sessions |-> "idle"]
    /\ towrite = [s \in Sessions |-> {}]
    /\ written = [s \in Sessions |-> {}]
    /\ prompt = [s \in Sessions |-> NoPrompt]
    /\ prompt_no = [s \in Sessions |-> 0]
    /\ query_calls = [s \in Sessions |-> 0]
    /\ last_outcome = [s \in Sessions |-> "none"]

NeedsIndexing_on_every_upload(files, engine) == files # {}

\* if uploaded_files and st.session_state.query_engine is None
NeedsIndexing(files, engine) == files # {} /\ engine = None

\* An interaction of session s starts a run of the script: the uploader holds
\* files, the chat input returns p. The run indexes when files are uploaded and
\* the engine is still None, and otherwise goes on to the chat input.
StartRun(s, files, p) ==
    /\ pc[s] = "idle"
    /\ uploaded_files' = [uploaded_files EXCEPT ![s] = files]
    /\ prompt' = [prompt EXCEPT ![s] = p]
    /\ IF NeedsIndexing(files, query_engine[s])
       THEN /\ pc' = [pc EXCEPT ![s] = "write"]
            /\ towrite' = [towrite EXCEPT ![s] = files]
       ELSE /\ pc' = [pc EXCEPT ![s] = "chat"]
            /\ towrite' = towrite
    /\ UNCHANGED <<messages, query_engine, question_count, disk, written,
                   prompt_no, query_calls, last_outcome>>
    /\ UNCHANGED <<pipeVars, classVars, locVars>>

\* the user adds files to or removes files from the uploader
UploadRun(s) ==
    \E files \in SUBSET FilesOf(s) :
        /\ files # uploaded_files[s]
        /\ StartRun(s, files, NoPrompt)

\* the user submits a prompt (at most cap prompts per session; a prompt that
\* can only meet a missing document counts against MaxUnanswered)
PromptRun(s, cap) ==
    \E p \in Prompts :
        /\ prompt_no[s] < cap
        /\ (uploaded_files[s] = {} /\ query_engine[s] = None)
               => Unanswered(s) < MaxUnanswered
        /\ StartRun(s, uploaded_files[s], p)

\* index_documents, the loop: one uploaded file is written into uploaded_docs
WriteFile(s) ==
    /\ pc[s] = "write"
    /\ towrite[s] # {}
    /\ \E f \in towrite[s] :
        /\ disk' = [disk EXCEPT ![f.name] = f.content]
        /\ towrite' = [towrite EXCEPT ![s] = @ \ {f}]
        /\ written' = [written EXCEPT ![s] = @ \cup {f}]
    /\ UNCHANGED <<messages, query_engine, question_count, uploaded_files, pc,
                   prompt, prompt_no, query_calls, last_outcome>>
    /\ UNCHANGED <<pipeVars, classVars, locVars>>

\* index_documents, after the loop: the directory is read and indexed
LoadAndIndex(s) ==
    /\ pc[s] = "write"
    /\ towrite[s] = {}
    /\ query_engine' = [query_engine EXCEPT ![s] = as_query_engine(load_data(disk))]
    /\ pc' = [pc EXCEPT ![s] = "chat"]
    /\ UNCHANGED <<messages, question_count, uploaded_files, disk, towrite, written,
                   prompt, prompt_no, query_calls, last_outcome>>
    /\ UNCHANGED <<pipeVars, classVars, locVars>>

\* index_documents raises while reading or indexing: the run ends there
IndexFails(s) ==
    /\ pc[s] = "write"
    /\ towrite[s] = {}
    /\ pc' = [pc EXCEPT ![s] = "idle"]
    /\ prompt' = [prompt EXCEPT ![s] = NoPrompt]
    /\ UNCHANGED <<messages, query_engine, question_count, uploaded_files, disk,
                   towrite, written, prompt_no, query_calls, last_outcome>>
    /\ UNCHANGED <<pipeVars, classVars, locVars>>

User(p) == [role |-> "user", content |-> p]
Assistant(r) == [role |-> "assistant", content |-> r]

\* the run reaches the chat input without a prompt
NoChat(s) ==
    /\ pc[s] = "chat"
    /\ prompt[s] = NoPrompt
    /\ pc' = [pc EXCEPT ![s] = "idle"]
    /\ UNCHANGED <<messages, query_engine, question_count, uploaded_files, disk,
                   towrite, written, prompt, prompt_no, query_calls, last_outcome>>
    /\ UNCHANGED <<pipeVars, classVars, locVars>>

\* chat input handler, the limit is reached: the fixed message is shown
ChatRejected(s) ==
    /\ pc[s] = "chat"
    /\ prompt[s] # NoPrompt
    /\ LimitReached(question_count[s])
    /\ prompt_no' = [prompt_no EXCEPT ![s] = @ + 1]
    /\ last_outcome' = [last_outcome EXCEPT ![s] = "limit"]
    /\ pc' = [pc EXCEPT ![s] = "idle"]
    /\ prompt' = [prompt EXCEPT ![s] = NoPrompt]
    /\ UNCHANGED <<messages, query_engine, question_count, uploaded_files, disk,
                   towrite, written, query_calls>>
    /\ UNCHANGED <<pipeVars, classVars, locVars>>

\* chat input handler, a document is loaded and the query returns
ChatAnswered(s) ==
    /\ pc[s] = "chat"
    /\ prompt[s] # NoPrompt
    /\ ~LimitReached(question_count[s])
    /\ query_engine[s] # None
    /\ messages' = [messages EXCEPT ![s] =
                        Append(Append(@, User(prompt[s])), Assistant(Response(prompt[s])))]
    /\ question_count' = [question_count EXCEPT ![s] = question_count_incremented(@)]
    /\ query_calls' = [query_calls EXCEPT ![s] = @ + 1]
    /\ prompt_no' = [prompt_no EXCEPT ![s] = @ + 1]
    /\ last_outcome' = [last_outcome EXCEPT ![s] = "answered"]
    /\ pc' = [pc EXCEPT ![s] = "idle"]
    /\ prompt' = [prompt EXCEPT ![s] = NoPrompt]
    /\ UNCHANGED <<query_engine, uploaded_files, disk, towrite, written>>
    /\ UNCHANGED <<pipeVars, classVars, locVars>>

\* chat input handler, a document is loaded and query_engine.query raises:
\* the user message is already stored, the run ends at the call
ChatQueryFails(s) ==
    /\ pc[s] = "chat"
    /\ prompt[s] # NoPrompt
    /\ ~LimitReached(question_count[s])
    /\ query_engine[s] # None
    /\ Unanswered(s) < MaxUnanswered
    /\ messages' = [messages EXCEPT ![s] = Append(@, User(prompt[s]))]
    /\ query_calls' = [query_calls EXCEPT ![s] = @ + 1]
    /\ prompt_no' = [prompt_no EXCEPT ![s] = @ + 1]
    /\ last_outcome' = [last_outcome EXCEPT ![s] = "query_error"]
    /\ pc' = [pc EXCEPT ![s] = "idle"]
    /\ prompt' = [prompt EXCEPT ![s] = NoPrompt]
    /\ UNCHANGED <<query_engine, question_count, uploaded_files, disk, towrite, written>>
    /\ UNCHANGED <<pipeVars, classVars, locVars>>

\* chat input handler, no document is loaded
ChatNoDocument(s) ==
    /\ pc[s] = "chat"
    /\ prompt[s] # NoPrompt
    /\ ~LimitReached(question_count[s])
    /\ query_engine[s] = None
    /\ messages' = [messages EXCEPT ![s] = Append(@, User(prompt[s]))]
    /\ prompt_no' = [prompt_no EXCEPT ![s] = @ + 1]
    /\ last_outcome' = [last_outcome EXCEPT ![s] = "no_document"]
    /\ pc' = [pc EXCEPT ![s] = "idle"]
    /\ prompt' = [prompt EXCEPT ![s] = NoPrompt]
    /\ UNCHANGED <<query_engine, question_count, uploaded_files, disk, towrite, written,
                   query_calls>>
    /\ UNCHANGED <<pipeVars, classVars, locVars>>

-----------------------------------------------------------------------------
(* Extraction page: strings *)

\* str.upper() of one character
UpperChar(c) ==
    CASE c = "a" -> "A" [] c = "b" -> "B" [] c = "c" -> "C" [] c = "d" -> "D"
      [] c = "e" -> "E" [] c = "f" -> "F" [] c = "g" -> "G" [] c = "h" -> "H"
      [] c = "i" -> "I" [] c = "j" -> "J" [] c = "k" -> "K" [] c = "l" -> "L"
      [] c = "m" -> "M" [] c = "n" -> "N" [] c = "o" -> "O" [] c = "p" -> "P"
      [] c = "q" -> "Q" [] c = "r" -> "R" [] c = "s" -> "S" [] c = "t" -> "T"
      [] c = "u" -> "U" [] c = "v" -> "V" [] c = "w" -> "W" [] c = "x" -> "X"
      [] c = "y" -> "Y" [] c = "z" -> "Z" [] OTHER -> c

\* str.upper()
Upper(str) == [i \in 1..Len(str) |-> UpperChar(str[i])]

IsSpace(c) == c \in {" ", "\t", "\n", "\r"}

RECURSIVE LStrip(_)
LStrip(str) ==
    IF str # <<>> /\ IsSpace(Head(str)) THEN LStrip(Tail(str)) ELSE str

RECURSIVE RStrip(_)
RStrip(str) ==
    IF str # <<>> /\ IsSpace(str[Len(str)])
    THEN RStrip(SubSeq(str, 1, Len(str) - 1))
    ELSE str

\* str.strip()
Strip(str) == RStrip(LStrip(str))

\* "sub in str"
Contains(str, sub) ==
    \E i \in 0..(Len(str) - Len(sub)) : SubSeq(str, i + 1, i + Len(sub)) = sub

RECURSIVE Concat(_)
Concat(seqs) == IF seqs = <<>> THEN <<>> ELSE Head(seqs) \o Concat(Tail(seqs))

Range(seq) == {seq[i] : i \in 1..Len(seq)}

-----------------------------------------------------------------------------
(* Extraction page: the Pattern Library *)

\* the keys of patterns, in the order of the dictionary
PatternLabels == <<"material", "finish", "general_tolerance", "surface_roughness",
                   "threads", "diameters", "weld_notes", "standards">>

\* the number of capturing groups of each pattern
GroupCount ==
    [material |-> 2, finish |-> 4, general_tolerance |-> 4, surface_roughness |-> 2,
     threads |-> 4, diameters |-> 2, weld_notes |-> 1, standards |-> 1]

\* The lines a page may hold. For each line: its text and, per pattern, the
\* matches the pattern has in it from left to right, each with the whole
\* matched text and the text of every capturing group ("" for a group that
\* took no part in the match).
Catalogue == <<
    [text |-> <<"S", "S", "3", "1", "6">>,
     found |-> [material |-> <<[whole |-> <<"S", "S", "3", "1", "6">>, groups |-> <<<<"S", "S", "3", "1", "6">>, <<"3", "1", "6">>>>]>>,
               finish |-> <<>>,
               general_tolerance |-> <<>>,
               surface_roughness |-> <<>>,
               threads |-> <<>>,
               diameters |-> <<>>,
               weld_notes |-> <<>>,
               standards |-> <<>>]],
    [text |-> <<"W", "E", "L", "D", "I", "N", "G">>,
     found |-> [material |-> <<>>,
               finish |-> <<>>,
               general_tolerance |-> <<>>,
               surface_roughness |-> <<>>,
               threads |-> <<>>,
               diameters |-> <<>>,
               weld_notes |-> <<[whole |-> <<"W", "E", "L", "D", "I", "N", "G">>, groups |-> <<<<"I", "N", "G">>>>]>>,
               standards |-> <<>>]],
    [text |-> <<"W", "e", "l", "d", "i", "n", "g", " ", "r", "o", "d">>,
     found |-> [material |-> <<>>,
               finish |-> <<>>,
               general_tolerance |-> <<>>,
               surface_roughness |-> <<>>,
               threads |-> <<>>,
               diameters |-> <<>>,
               weld_notes |-> <<[whole |-> <<"W", "e", "l", "d", "i", "n", "g", " ", "r", "o", "d">>, groups |-> <<<<"i", "n", "g">>>>]>>,
               standards |-> <<>>]],
    [text |-> <<" ", "W", "e", "l", "d", " ", "A", "l", "l">>,
     found |-> [material |-> <<>>,
               finish |-> <<>>,
               general_tolerance |-> <<>>,
               surface_roughness |-> <<>>,
               threads |-> <<>>,
               diameters |-> <<>>,
               weld_notes |-> <<[whole |-> <<"W", "e", "l", "d", " ", "A", "l", "l">>, groups |-> <<<<>>>>]>>,
               standards |-> <<>>]],
    [text |-> <<"A", "S", "T", "M", "-", "A", "3", "6">>,
     found |-> [material |-> <<>>,
               finish |-> <<>>,
               general_tolerance |-> <<>>,
               surface_roughness |-> <<>>,
               threads |-> <<>>,
               diameters |-> <<>>,
               weld_notes |-> <<>>,
               standards |-> <<[whole |-> <<"A", "S", "T", "M", "-", "A", "3", "6">>, groups |-> <<<<"A", "S", "T", "M">>>>]>>]],
    [text |-> <<"D", "I", "A", " ", "2", "5", " ", "S", "S", " ", "x">>,
     found |-> [material |-> <<[whole |-> <<"S", "S", " ">>, groups |-> <<<<"S", "S", " ">>, <<>>>>]>>,
               finish |-> <<>>,
               general_tolerance |-> <<>>,
               surface_roughness |-> <<>>,
               threads |-> <<>>,
               diameters |-> <<[whole |-> <<"D", "I", "A", " ", "2", "5">>, groups |-> <<<<"D", "I", "A">>, <<>>>>]>>,
               weld_notes |-> <<>>,
               standards |-> <<>>]]
>>

LineIds == 1..Len(Catalogue)

\* the catalogue entry of a line of text
EntryOf(line) == CHOOSE e \in Range(Catalogue) : e.text = line

\* pattern.finditer over text_blob, the lines joined by "\n": no pattern of the
\* catalogue's lines matches across a line break
Matches(label, lines) == Concat([i \in 1..Len(lines) |-> EntryOf(lines[i]).found[label]])

\* One element of pattern.findall(text_blob): the group's text for a pattern
\* with one group, the tuple of all groups' texts for a pattern with several.
findall_item(label, m) ==
    IF GroupCount[label] = 1
    THEN [is_tuple |-> FALSE, value |-> m.groups[1]]
    ELSE [is_tuple |-> TRUE, value |-> m.groups]

findall(label, lines) ==
    [i \in 1..Len(Matches(label, lines)) |-> findall_item(label, Matches(label, lines)[i])]

-----------------------------------------------------------------------------
(* Extraction page: text collection and regex pass *)

\* the keywords that flag a line as a note
NoteKeywords == {<<"N", "O", "T", "E">>, <<"W", "E", "L", "D">>,
                 <<"C", "O", "A", "T", "I", "N", "G">>,
                 <<"S", "U", "R", "F", "A", "C", "E">>}

ING == <<"I", "N", "G">>

\* the lines of a page: text.split("\n") of page.extract_text()
PageLines(page) == [i \in 1..Len(page) |-> Catalogue[page[i]].text]

\* all_text after the loop over pdf.pages: a page without text adds nothing
AllText(doc) == Concat([i \in 1..Len(doc) |-> PageLines(doc[i])])

IsNoteLine_case_sensitive(line) == \E k \in NoteKeywords : Contains(line, k)

\* any(k in line.upper() for k in ["NOTE", "WELD", "COATING", "SURFACE"])
IsNoteLine(line) == \E k \in NoteKeywords : Contains(Upper(line), k)

RECURSIVE NoteLinesOf(_)
NoteLinesOf(lines) ==
    IF lines = <<>> THEN <<>>
    ELSE (IF IsNoteLine(Head(lines)) THEN <<Strip(Head(lines))>> ELSE <<>>)
             \o NoteLinesOf(Tail(lines))

\* note_lines after the loop over pdf.pages
NoteLines(doc) == NoteLinesOf(AllText(doc))

\* match[0] if isinstance(match, tuple) else match
match_text(item) == IF item.is_tuple THEN item.value[1] ELSE item.value

IsArtifact_exact(text) == text = ING

\* match_text.upper() == "ING"
IsArtifact(text) == Upper(text) = ING

\* what the regex pass adds to regex_extracted[label]
Extracted(label, lines) ==
    {Strip(match_text(findall(label, lines)[i])) :
        i \in {j \in 1..Len(findall(label, lines)) :
                   ~IsArtifact(match_text(findall(label, lines)[j]))}}

\* regex_extracted after the regex pass: a defaultdict, so a label is a key
\* only when something was added for it
RegexPass(lines) ==
    [label \in {l \in Range(PatternLabels) : Extracted(l, lines) # {}}
        |-> Extracted(label, lines)]

-----------------------------------------------------------------------------
(* Extraction page: the schema *)

FieldKeys == {"material", "finish", "general_tolerance", "surface_roughness",
              "threads", "diameters", "weld_requirements", "standards", "cost_drivers"}

\* the schema of one item of "sources"
SourceSchema ==
    [type |-> "object",
     properties |-> [text |-> [type |-> "string"],
                     value |-> [type |-> "string"],
                     context |-> [type |-> "string"]],
     required |-> <<"text", "value", "context">>,
     additionalProperties |-> FALSE]

FieldSchema_open ==
    [type |-> "object",
     properties |-> [values |-> [type |-> "array", items |-> [type |-> "string"]],
                     notes |-> [type |-> "string"],
                     sources |-> [type |-> "array", items |-> SourceSchema]],
     required |-> <<"values", "notes", "sources">>,
     additionalProperties |-> TRUE]

\* the schema of one field
FieldSchema ==
    [type |-> "object",
     properties |-> [values |-> [type |-> "array", items |-> [type |-> "string"]],
                     notes |-> [type |-> "string"],
                     sources |-> [type |-> "array", items |-> SourceSchema]],
     required |-> <<"values", "notes", "sources">>,
     additionalProperties |-> FALSE]

shared_schema ==
    [type |-> "object",
     properties |-> [material |-> FieldSchema,
                     finish |-> FieldSchema,
                     general_tolerance |-> FieldSchema,
                     surface_roughness |-> FieldSchema,
                     threads |-> FieldSchema,
                     diameters |-> FieldSchema,
                     weld_requirements |-> FieldSchema,
                     standards |-> FieldSchema,
                     cost_drivers |-> FieldSchema],
     required |-> <<"material", "finish", "general_tolerance", "surface_roughness",
                    "threads", "diameters", "weld_requirements", "standards",
                    "cost_drivers">>,
     additionalProperties |-> FALSE]

-----------------------------------------------------------------------------
(* Extraction page: the model-backed calls *)

Without(r, k) == [x \in DOMAIN r \ {k} |-> r[x]]
With(r, k, v) == [x \in DOMAIN r \cup {k} |-> IF x = k THEN v ELSE r[x]]

Source == [text |-> "SS316", value |-> "SS316", context |-> "SS316 flange"]
EmptyField == [values |-> <<>>, notes |-> "", sources |-> <<>>]
MaterialField == [values |-> <<"SS316">>, notes |-> "flange material", sources |-> <<Source>>]
CostField == [values |-> <<"tight tolerance">>, notes |-> "", sources |-> <<>>]

\* a record with nothing extracted
RecordEmpty == [k \in FieldKeys |-> EmptyField]
\* a record with a material and a cost driver
RecordFull ==
    [k \in FieldKeys |->
        IF k = "material" THEN MaterialField
        ELSE IF k = "cost_drivers" THEN CostField ELSE EmptyField]

MaterialWith(sources) == With(RecordFull, "material", With(MaterialField, "sources", sources))

\* The documents the service may answer a call with: records of the schema and
\* records that leave it (a key missing, a key too many, at each level).
ConformingRecords == {RecordEmpty, RecordFull}
OtherRecords ==
    {Without(RecordFull, "cost_drivers"),
     With(RecordFull, "extra_field", CostField),
     With(RecordFull, "material", Without(MaterialField, "notes")),
     With(RecordFull, "material", Without(MaterialField, "values")),
     MaterialWith(<<Without(Source, "context")>>),
     MaterialWith(<<Without(Source, "value")>>),
     MaterialWith(<<With(Source, "page", "1")>>)}

ErrorMessages == {"Connection error.", "Rate limit reached"}
JSONDecodeError == "Expecting value: line 1 column 1 (char 0)"

\* What client.responses.create does for one call: it raises, or returns a
\* response whose output_text is no JSON, or one that json.loads turns into out.
Raises(m) == [kind |-> "raise", msg |-> m, out |-> RecordEmpty]
BadJson == [kind |-> "bad_json", msg |-> JSONDecodeError, out |-> RecordEmpty]
Returns(r) == [kind |-> "ok", msg |-> "", out |-> r]

RawOutcomes ==
    {Raises(m) : m \in ErrorMessages} \cup {BadJson} \cup {Returns(r) : r \in ConformingRecords}
MergeOutcomes ==
    {Raises(m) : m \in ErrorMessages} \cup {BadJson}
        \cup {Returns(r) : r \in ConformingRecords \cup OtherRecords}

llm_pass_raw(o) == IF o.kind = "ok" THEN o.out ELSE [error |-> ""]

\* llm_pass: the parsed response, or {"error": str(e)} for any exception
llm_pass(o) == IF o.kind = "ok" THEN o.out ELSE [error |-> o.msg]

\* the text.format argument of a call
Call(name) == [name |-> name, schema |-> shared_schema, strict |-> TRUE]

\* "\n".join(lines)
RECURSIVE join(_)
join(lines) ==
    IF lines = <<>> THEN <<>>
    ELSE IF Len(lines) = 1 THEN lines[1]
    ELSE lines[1] \o <<"\n">> \o join(Tail(lines))

\* client.responses.create with the content of its user message
Request(name, content) == With(Call(name), "content", content)

MergePrompt_without_notes(doc, notes, regex) == [doc_llm |-> doc, notes_llm |-> doc, regex |-> regex]

\* what merge_prompt carries: json.dumps of the two pass results and of the regex sets
MergePrompt(doc, notes, regex) == [doc_llm |-> doc, notes_llm |-> notes, regex |-> regex]

NoRecord == [unset |-> TRUE]

-----------------------------------------------------------------------------
(* Extraction page: annotation and rendering *)

\* the order of the render_section calls
RenderOrder == <<"material", "finish", "general_tolerance", "surface_roughness",
                 "threads", "diameters", "standards", "weld_requirements",
                 "cost_drivers">>

\* field_data.get("sources", [])
SourcesOf(field) == IF "sources" \in DOMAIN field THEN field.sources ELSE <<>>

\* The loop over merged_fields.items() that draws source locations raises a
\* KeyError: source["text"] and source["context"] are read for every source,
\* source["value"] when find_text_locations found the text (found: the texts
\* it finds on the first page).
AnnotateRaises(r, found) ==
    \E k \in DOMAIN r : \E i \in 1..Len(SourcesOf(r[k])) :
        LET source == SourcesOf(r[k])[i] IN
            \/ "text" \notin DOMAIN source
            \/ "context" \notin DOMAIN source
            \/ (source.text \in found /\ "value" \notin DOMAIN source)

\* render_section(title, merged_fields[k]) raises a KeyError
SectionRaises(r, k) ==
    \/ k \notin DOMAIN r
    \/ "values" \notin DOMAIN r[k]
    \/ /\ r[k].values # <<>>
       /\ \E i \in 1..Len(SourcesOf(r[k])) :
              {"text", "value"} \ DOMAIN SourcesOf(r[k])[i] # {}

\* render_section displays the section's title and chips
SectionShown(r, k) ==
    /\ k \in DOMAIN r
    /\ "values" \in DOMAIN r[k]
    /\ r[k].values # <<>>

\* the sections displayed by the render_section calls from the i-th on
RECURSIVE RenderFrom(_, _)
RenderFrom(r, i) ==
    IF i > Len(RenderOrder) THEN <<>>
    ELSE (IF SectionShown(r, RenderOrder[i]) THEN <<RenderOrder[i]>> ELSE <<>>)
            \o (IF SectionRaises(r, RenderOrder[i]) THEN <<>> ELSE RenderFrom(r, i + 1))

RenderRaises(r) == \E i \in 1..Len(RenderOrder) : SectionRaises(r, RenderOrder[i])

-----------------------------------------------------------------------------
(* Extraction page: one run of the script for an uploaded PDF *)

InitPipe(docs) ==
    /\ pdf \in docs
    /\ ppc = "upload"
    /\ all_text = <<>>
    /\ note_lines = <<>>
    /\ regex_extracted = <<>>
    /\ notes_data = NoRecord
    /\ doc_data = NoRecord
    /\ merge_prompt = NoRecord
    /\ merged_fields = NoRecord
    /\ rendered = <<>>
    /\ calls = <<>>
    /\ failed_calls = {}
    /\ raised = "nothing"

\* pdf.pages[0], then the text collection and the regex pass
CollectAndRegex ==
    /\ ppc = "upload"
    /\ IF pdf = <<>>
       THEN /\ ppc' = "aborted"
            /\ raised' = "first_page"
            /\ UNCHANGED <<all_text, note_lines, regex_extracted>>
       ELSE /\ ppc' = "notes"
            /\ all_text' = AllText(pdf)
            /\ note_lines' = NoteLines(pdf)
            /\ regex_extracted' = RegexPass(AllText(pdf))
            /\ raised' = raised
    /\ UNCHANGED <<pdf, notes_data, doc_data, merge_prompt, merged_fields, rendered,
                   calls, failed_calls>>
    /\ UNCHANGED <<chatVars, classVars, locVars>>

\* the calls that failed so far, each with the message of its exception
Failed(name, o) ==
    IF o.kind = "ok" THEN failed_calls
    ELSE failed_calls \cup {[call |-> name, msg |-> o.msg]}

\* notes_data = llm_pass(notes_blob, "notes_extraction")
LlmPassNotes ==
    /\ ppc = "notes"
    /\ \E o \in RawOutcomes :
        /\ notes_data' = llm_pass(o)
        /\ failed_calls' = Failed("notes_extraction", o)
    /\ calls' = Append(calls, Request("notes_extraction", join(note_lines)))
    /\ ppc' = "doc"
    /\ UNCHANGED <<pdf, all_text, note_lines, regex_extracted, doc_data, merge_prompt,
                   merged_fields, rendered, raised>>
    /\ UNCHANGED <<chatVars, classVars, locVars>>

\* doc_data = llm_pass(text_blob, "doc_extraction")
LlmPassDoc ==
    /\ ppc = "doc"
    /\ \E o \in RawOutcomes :
        /\ doc_data' = llm_pass(o)
        /\ failed_calls' = Failed("doc_extraction", o)
    /\ calls' = Append(calls, Request("doc_extraction", join(all_text)))
    /\ ppc' = "merge"
    /\ UNCHANGED <<pdf, all_text, note_lines, regex_extracted, notes_data, merge_prompt,
                   merged_fields, rendered, raised>>
    /\ UNCHANGED <<chatVars, classVars, locVars>>

\* the merge call and json.loads of its output, outside any try
MergeCall ==
    /\ ppc = "merge"
    /\ merge_prompt' = MergePrompt(doc_data, notes_data, regex_extracted)
    /\ calls' = Append(calls, Request("merged_fields", MergePrompt(doc_data, notes_data, regex_extracted)))
    /\ \E o \in MergeOutcomes :
        /\ failed_calls' = Failed("merged_fields", o)
        /\ IF o.kind = "ok"
           THEN /\ merged_fields' = o.out
                /\ ppc' = "annotate"
                /\ raised' = raised
           ELSE /\ merged_fields' = merged_fields
                /\ ppc' = "aborted"
                /\ raised' = "merge"
    /\ UNCHANGED <<pdf, all_text, note_lines, regex_extracted, notes_data, doc_data,
                   rendered>>
    /\ UNCHANGED <<chatVars, classVars, locVars>>

\* the source locations are drawn on the page image
Annotate ==
    /\ ppc = "annotate"
    /\ \E found \in SUBSET {Source.text} :
        IF AnnotateRaises(merged_fields, found)
        THEN ppc' = "aborted" /\ raised' = "annotate"
        ELSE ppc' = "render" /\ raised' = raised
    /\ UNCHANGED <<pdf, all_text, note_lines, regex_extracted, notes_data, doc_data,
                   merge_prompt, merged_fields, rendered, calls, failed_calls>>
    /\ UNCHANGED <<chatVars, classVars, locVars>>

\* the nine render_section calls
Render ==
    /\ ppc = "render"
    /\ rendered' = RenderFrom(merged_fields, 1)
    /\ IF RenderRaises(merged_fields)
       THEN ppc' = "aborted" /\ raised' = "render"
       ELSE ppc' = "done" /\ raised' = raised
    /\ UNCHANGED <<pdf, all_text, note_lines, regex_extracted, notes_data, doc_data,
                   merge_prompt, merged_fields, calls, failed_calls>>
    /\ UNCHANGED <<chatVars, classVars, locVars>>

\* no extraction run
PipeIdle == InitPipe({<<>>})

-----------------------------------------------------------------------------
(* Field classifiers *)

STAINLESS == <<"S", "T", "A", "I", "N", "L", "E", "S", "S">>
SS == <<"S", "S">>
ALUMINUM == <<"A", "L", "U", "M", "I", "N", "U", "M">>
AL == <<"A", "L">>
BRASS == <<"B", "R", "A", "S", "S">>
BRONZE == <<"B", "R", "O", "N", "Z", "E">>
PEEK == <<"P", "E", "E", "K">>
G304 == <<"3", "0", "4">>
G316 == <<"3", "1", "6">>
G6061 == <<"6", "0", "6", "1">>

\* a classifier's return value None
NoLabel == "None"

\* classify_material after value = value.upper()
material_of(v) ==
    IF Contains(v, STAINLESS) \/ Contains(v, SS)
    THEN IF Contains(v, G304) THEN "Standard Stainless"
         ELSE IF Contains(v, G316) THEN "Marine Grade Stainless"
         ELSE "General Stainless"
    ELSE IF Contains(v, ALUMINUM) \/ Contains(v, AL)
    THEN IF Contains(v, G6061) THEN "Aircraft Grade Aluminum"
         ELSE "General Aluminum"
    ELSE IF Contains(v, BRASS) THEN "Decorative/Corrosion Resistant"
    ELSE IF Contains(v, BRONZE) THEN "High Strength/Corrosion Resistant"
    ELSE IF Contains(v, PEEK) THEN "High Performance Plastic"
    ELSE NoLabel

classify_material_as_written(v) == material_of(v)

classify_material(v) == material_of(Upper(v))

\* The pieces material values are put together from: the keywords and grades
\* in both letter cases, and pieces of them that join across a seam.
MaterialParts ==
    {STAINLESS, <<"s", "t", "a", "i", "n", "l", "e", "s", "s">>, <<"S">>, <<" ">>,
     G316, G304, <<"3">>, <<"0", "4">>, <<"1", "6">>,
     <<"A", "l">>, G6061, <<"B", "r", "a">>, <<"B", "r", "o", "n", "z", "e">>,
     <<"P", "e", "e", "k">>, <<"B", "r", "a", "s", "s">>}

\* the values of at most MaxParts pieces
MaterialValues ==
    {Concat(parts) : parts \in UNION {[1..n -> MaterialParts] : n \in 0..MaxParts}}

InitClass(values) ==
    /\ value \in values
    /\ result = NoLabel
    /\ cpc = "ready"

\* get_classifications calls the material classifier on a value
ClassifyMaterial ==
    /\ cpc = "ready"
    /\ result' = classify_material(value)
    /\ cpc' = "classified"
    /\ UNCHANGED <<value, chatVars, pipeVars, locVars>>

\* no value to classify
ClassIdle == InitClass({<<>>})

-----------------------------------------------------------------------------
(* Field classifiers: numeric sizes *)

LowerChar(c) ==
    CASE c = "A" -> "a" [] c = "B" -> "b" [] c = "C" -> "c" [] c = "D" -> "d"
      [] c = "E" -> "e" [] c = "F" -> "f" [] c = "G" -> "g" [] c = "H" -> "h"
      [] c = "I" -> "i" [] c = "J" -> "j" [] c = "K" -> "k" [] c = "L" -> "l"
      [] c = "M" -> "m" [] c = "N" -> "n" [] c = "O" -> "o" [] c = "P" -> "p"
      [] c = "Q" -> "q" [] c = "R" -> "r" [] c = "S" -> "s" [] c = "T" -> "t"
      [] c = "U" -> "u" [] c = "V" -> "v" [] c = "W" -> "w" [] c = "X" -> "x"
      [] c = "Y" -> "y" [] c = "Z" -> "z" [] OTHER -> c

\* str.lower()
Lower(str) == [i \in 1..Len(str) |-> LowerChar(str[i])]

Digits == {"0", "1", "2", "3", "4", "5", "6", "7", "8", "9"}

DigitValue(c) ==
    CASE c = "0" -> 0 [] c = "1" -> 1 [] c = "2" -> 2 [] c = "3" -> 3 [] c = "4" -> 4
      [] c = "5" -> 5 [] c = "6" -> 6 [] c = "7" -> 7 [] c = "8" -> 8 [] c = "9" -> 9

\* \d+ from position i: the position after the run of digits
RECURSIVE DigitsEnd(_, _)
DigitsEnd(str, i) ==
    IF i <= Len(str) /\ str[i] \in Digits THEN DigitsEnd(str, i + 1) ELSE i

\* \s* from position i: the position after the run of whitespace
RECURSIVE SpaceEnd(_, _)
SpaceEnd(str, i) ==
    IF i <= Len(str) /\ IsSpace(str[i]) THEN SpaceEnd(str, i + 1) ELSE i

\* (\d+(?:\.\d+)?) from the digit at position i: the position after the number
NumberEnd(str, i) ==
    LET j == DigitsEnd(str, i)
    IN  IF j + 1 <= Len(str) /\ str[j] = "." /\ str[j + 1] \in Digits
        THEN DigitsEnd(str, j + 1)
        ELSE j

\* the alternatives of (mm|in|inch), in the order the pattern tries them
UnitAlternatives == <<<<"m", "m">>, <<"i", "n">>, <<"i", "n", "c", "h">>>>

\* match.group(2) of a match without a unit
NoUnit == <<>>

\* does alternative u match at position k (ignorecase: under re.IGNORECASE)
UnitMatches(str, k, u, ignorecase) ==
    /\ k + Len(u) - 1 <= Len(str)
    /\ IF ignorecase THEN Lower(SubSeq(str, k, k + Len(u) - 1)) = u
                     ELSE SubSeq(str, k, k + Len(u) - 1) = u

\* (mm|in|inch)? at position k: the text of the first alternative that matches
UnitAt(str, k, ignorecase) ==
    LET hits == {a \in 1..Len(UnitAlternatives) :
                    UnitMatches(str, k, UnitAlternatives[a], ignorecase)}
    IN  IF hits = {} THEN NoUnit
        ELSE LET a == CHOOSE x \in hits : \A y \in hits : x <= y
             IN  SubSeq(str, k, k + Len(UnitAlternatives[a]) - 1)

\* re.finditer(r"(\d+(?:\.\d+)?)\s*(mm|in|inch)?", value[, re.IGNORECASE]):
\* the groups of the matches from position i on, left to right
RECURSIVE finditer(_, _, _)
finditer(str, i, ignorecase) ==
    IF i > Len(str) THEN <<>>
    ELSE IF str[i] \notin Digits THEN finditer(str, i + 1, ignorecase)
    ELSE LET j == NumberEnd(str, i)
             k == SpaceEnd(str, j)
             u == UnitAt(str, k, ignorecase)
         IN  <<[number |-> SubSeq(str, i, j - 1), unit |-> u]>>
                 \o finditer(str, k + Len(u), ignorecase)

RECURSIVE IntOf(_)
IntOf(ds) ==
    IF ds = <<>> THEN 0
    ELSE IntOf(SubSeq(ds, 1, Len(ds) - 1)) * 10 + DigitValue(ds[Len(ds)])

\* float(match.group(1)) of a number with at most two decimals, in hundredths
Hundredths(number) ==
    LET j == DigitsEnd(number, 1)
        frac == SubSeq(number, j + 1, Len(number))
    IN  IntOf(SubSeq(number, 1, j - 1)) * 100
            + (IF Len(frac) = 1 THEN IntOf(frac) * 10 ELSE IntOf(frac))

\* The sizes in hundredths of a millimetre whose quotient by 25.4 is a whole
\* number of inches at an edge of a band: 152.4, 203.2, 254 and 304.8 mm.
\* In double arithmetic 152.4 / 25.4 = 6.000000000000001 and
\* 304.8 / 25.4 = 12.000000000000002, one unit in the last place above 6 and
\* 12; 203.2 / 25.4 = 8.0 and 254 / 25.4 = 10.0.
QuotientRoundedUp == {15240, 30480}

\* A size is num / den, and above tells that the double holding it lies just
\* above that quotient.
Exactly(h) == [num |-> h, den |-> 100, above |-> FALSE]

\* size = size / 25.4, in doubles
inches_of_mm(h) == [num |-> h, den |-> 2540, above |-> h \in QuotientRoundedUp]

\* size = size * 25.4
mm_of_inches(h) == [num |-> h * 254, den |-> 1000, above |-> FALSE]

\* size <= b and b <= size for a whole number b
AtMost(size, b) == size.num < b * size.den \/ (size.num = b * size.den /\ ~size.above)
AtLeast(size, b) == size.num >= b * size.den

\* the unit names the classifiers compare with
UnitMm == <<"m", "m">>
UnitMillimeter == <<"m", "i", "l", "l", "i", "m", "e", "t", "e", "r">>
UnitIn == <<"i", "n">>
UnitInch == <<"i", "n", "c", "h">>

\* match.group(2) or "mm"
unit_or_mm(m) == IF m.unit = NoUnit THEN UnitMm ELSE m.unit

\* classify_diameter: the size of one match in inches
diameter_size(m) ==
    IF Lower(unit_or_mm(m)) \in {UnitMm, UnitMillimeter}
    THEN inches_of_mm(Hundredths(m.number))
    ELSE Exactly(Hundredths(m.number))

\* classify_diameter: the labels one match adds
diameter_band(size) ==
    IF AtLeast(size, 6) /\ AtMost(size, 8) THEN {"Class A Pipe"}
    ELSE IF ~AtMost(size, 8) /\ AtMost(size, 10) THEN {"Class B Pipe"}
    ELSE IF ~AtMost(size, 10) /\ AtMost(size, 12) THEN {"Class C Pipe"}
    ELSE {}

\* the return value None of a classifier that returns a list of labels
NoList == [is_list |-> FALSE, labels |-> {}]

\* a list with the labels of a set
ListOf(labels) == [is_list |-> TRUE, labels |-> labels]

\* list(classifications) if classifications else None
list_or_None(classifications) ==
    IF classifications = {} THEN NoList
    ELSE ListOf(classifications)

classify_diameter(v) ==
    LET matches == finditer(v, 1, TRUE)
    IN  list_or_None(UNION {diameter_band(diameter_size(matches[i])) : i \in 1..Len(matches)})

\* re.search(r"(Stud|Anchor|Hole|Bolt)", value, re.I): the leftmost keyword
TypeKeywords == {<<"s", "t", "u", "d">>, <<"a", "n", "c", "h", "o", "r">>,
                 <<"h", "o", "l", "e">>, <<"b", "o", "l", "t">>}

KeywordAt_case_sensitive(v, i) ==
    {k \in TypeKeywords : i + Len(k) - 1 <= Len(v) /\ SubSeq(v, i, i + Len(k) - 1) = k}

\* the keywords that match at position i, under re.I
KeywordAt(v, i) ==
    {k \in TypeKeywords : i + Len(k) - 1 <= Len(v) /\ Lower(SubSeq(v, i, i + Len(k) - 1)) = k}

unknown == <<"u", "n", "k", "n", "o", "w", "n">>

\* type_match.group(1).lower() if type_match else "unknown"
thread_type(v) ==
    LET at == {i \in 1..Len(v) : KeywordAt(v, i) # {}}
    IN  IF at = {} THEN unknown
        ELSE CHOOSE k \in KeywordAt(v, CHOOSE i \in at : \A j \in at : i <= j) : TRUE

\* classify_thread: the size of one match in millimetres
thread_size(m) ==
    IF unit_or_mm(m) \in {UnitIn, UnitInch}
    THEN mm_of_inches(Hundredths(m.number))
    ELSE Exactly(Hundredths(m.number))

\* classify_thread: the labels one match adds
thread_duty(type, size) ==
    IF type = <<"s", "t", "u", "d">>
    THEN IF AtMost(size, 20) THEN {"Light Duty Stud"} ELSE {"Heavy Duty Stud"}
    ELSE IF type = <<"a", "n", "c", "h", "o", "r">>
    THEN IF AtMost(size, 25) THEN {"Standard Anchor"} ELSE {"Heavy Duty Anchor"}
    ELSE IF type = <<"h", "o", "l", "e">>
    THEN IF AtMost(size, 20) THEN {"Standard Hole"} ELSE {"Large Hole"}
    ELSE {}

classify_thread(v) ==
    LET matches == finditer(v, 1, FALSE)
    IN  list_or_None(UNION {thread_duty(thread_type(v), thread_size(matches[i]))
                                : i \in 1..Len(matches)})

\* The sizes and units diameter values are written with: sizes below, inside,
\* above and at the edges of the bands, in millimetres and in inches.
DiameterNumbers ==
    {<<"1", "0", "0">>, <<"1", "5", "2", ".", "4">>, <<"2", "0", "3">>,
     <<"2", "0", "3", ".", "2">>, <<"2", "5", "4">>, <<"2", "8", "0">>,
     <<"3", "0", "4", ".", "8">>, <<"3", "0", "5">>, <<"8">>}
DiameterUnits ==
    {<<>>, <<"m", "m">>, <<" ", "M", "M">>, <<"i", "n">>,
     <<" ", "i", "n", "c", "h">>}

\* The sizes, units and duty words thread values are written with: a metric
\* callout with its pitch, sizes around the thresholds, inch sizes.
ThreadNumbers ==
    {<<"M", "8", "x", "1", ".", "2", "5">>, <<"2", "0">>, <<"2", "5">>,
     <<"1">>}
ThreadUnits ==
    {<<>>, <<"m", "m">>, <<" ", "i", "n">>, <<" ", "I", "N">>}
ThreadWords ==
    {<<>>, <<" ", "s", "t", "u", "d">>,
     <<" ", "A", "N", "C", "H", "O", "R">>, <<" ", "H", "o", "l", "e">>,
     <<" ", "b", "o", "l", "t">>}

\* the texts of a size followed by a unit
Sized(numbers, units) == {n \o u : n \in numbers, u \in units}

RECURSIVE JoinSpace(_)
JoinSpace(items) ==
    IF items = <<>> THEN <<>>
    ELSE IF Len(items) = 1 THEN items[1]
    ELSE items[1] \o <<" ">> \o JoinSpace(Tail(items))

\* the texts of at most MaxNumbers sizes
SizeTexts(sized) == {JoinSpace(items) : items \in UNION {[1..n -> sized] : n \in 0..MaxNumbers}}

DiameterValues == SizeTexts(Sized(DiameterNumbers, DiameterUnits))

ThreadValues == {t \o w : t \in SizeTexts(Sized(ThreadNumbers, ThreadUnits)), w \in ThreadWords}

\* get_classifications calls the diameter classifier on a value
ClassifyDiameter ==
    /\ cpc = "ready"
    /\ result' = classify_diameter(value)
    /\ cpc' = "classified"
    /\ UNCHANGED <<value, chatVars, pipeVars, locVars>>

\* get_classifications calls the thread classifier on a value
ClassifyThread ==
    /\ cpc = "ready"
    /\ result' = classify_thread(value)
    /\ cpc' = "classified"
    /\ UNCHANGED <<value, chatVars, pipeVars, locVars>>

-----------------------------------------------------------------------------
(* Source locator *)

\* best_match = None
NoWord == [none |-> TRUE]

\* return None
NotFound == [found |-> FALSE]

\* a word of page.extract_words(): its text and the four sides of its box,
\* every side with a number of its own
Word(t, i) == [text |-> t, x0 |-> 10 * i, top |-> 10 * i + 1, x1 |-> 10 * i + 5, bottom |-> 10 * i + 7]

\* the dict find_text_locations returns for a word
BoundingBox(word) == [x0 |-> word.x0, y0 |-> word.top, x1 |-> word.x1, y1 |-> word.bottom]

lower_in_exact_case(a, b) == Contains(b, a)

\* a.lower() in b.lower()
lower_in(a, b) == Contains(Lower(b), Lower(a))

\* the positions of the words the exact pass matches
exact_matches(words, text) == {i \in 1..Len(words) : lower_in(text, words[i].text)}

\* text.split()
RECURSIVE WordEnd(_, _)
WordEnd(str, i) ==
    IF i <= Len(str) /\ ~IsSpace(str[i]) THEN WordEnd(str, i + 1) ELSE i

RECURSIVE split_from(_, _)
split_from(str, i) ==
    IF i > Len(str) THEN <<>>
    ELSE IF IsSpace(str[i]) THEN split_from(str, i + 1)
    ELSE <<SubSeq(str, i, WordEnd(str, i) - 1)>> \o split_from(str, WordEnd(str, i))

split(str) == split_from(str, 1)

\* sum(1 for part in text.split() if part.lower() in word["text"].lower())
score(word, text) ==
    Cardinality({k \in 1..Len(split(text)) : lower_in(split(text)[k], word.text)})

replaces_or_ties(s, best_score) == s >= best_score

\* if score > best_score
replaces(s, best_score) == s > best_score

\* the loop of the fuzzy pass from word i on: the best_match it ends with
RECURSIVE fuzzy_loop(_, _, _, _, _)
fuzzy_loop(words, i, text, best_score, best) ==
    IF i > Len(words) THEN best
    ELSE IF score(words[i], text) > 0 /\ replaces(score(words[i], text), best_score)
    THEN fuzzy_loop(words, i + 1, text, score(words[i], text), words[i])
    ELSE fuzzy_loop(words, i + 1, text, best_score, best)

\* if context:
Truthy(context) == context # <<>>

\* The texts of the words of a page, the snippets and the contexts
WordTexts ==
    {<<"B", "r", "a", "s", "s">>, <<"S", "S", "3", "1", "6">>, <<"F", "l", "a", "n", "g", "e">>, <<"3", "1", "6">>}
Snippets ==
    {<<"s", "s", "3", "1", "6">>, <<"S", "S", " ", "3", "1", "6">>, <<"3", "1", "6", " ", "f", "l", "a", "n", "g", "e">>, <<"M", "8">>, <<>>}
Contexts ==
    {<<>>, <<"S", "S", "3", "1", "6", " ", "f", "l", "a", "n", "g", "e">>}

\* the pages of at most MaxWords words
LocPages ==
    {[i \in 1..Len(texts) |-> Word(texts[i], i)] : texts \in UNION {[1..n -> WordTexts] : n \in 0..MaxWords}}

InitLoc(pages, texts, contexts) ==
    /\ loc_page \in pages
    /\ loc_text \in texts
    /\ loc_context \in contexts
    /\ best_match = NoWord
    /\ location = NotFound
    /\ lpc = "exact"

\* the exact pass: the first word that holds the text is returned
ExactPass ==
    /\ lpc = "exact"
    /\ IF exact_matches(loc_page, loc_text) # {}
       THEN /\ location' = BoundingBox(loc_page[CHOOSE i \in exact_matches(loc_page, loc_text) :
                                   \A j \in exact_matches(loc_page, loc_text) : i <= j])
            /\ lpc' = "returned"
       ELSE /\ location' = location
            /\ lpc' = "fallback"
    /\ UNCHANGED <<loc_page, loc_text, loc_context, best_match, chatVars, pipeVars, classVars>>

\* the fuzzy pass, which is guarded by the context
FuzzyPass ==
    /\ lpc = "fallback"
    /\ IF Truthy(loc_context)
       THEN /\ best_match' = fuzzy_loop(loc_page, 1, loc_text, 0, best_match)
            /\ lpc' = "scored"
       ELSE /\ best_match' = best_match
            /\ lpc' = "skipped"
    /\ UNCHANGED <<loc_page, loc_text, loc_context, location, chatVars, pipeVars, classVars>>

\* the end of the function: the box of best_match, or None
ReturnBest ==
    /\ lpc \in {"scored", "skipped"}
    /\ location' = (IF best_match # NoWord THEN BoundingBox(best_match) ELSE NotFound)
    /\ lpc' = "returned"
    /\ UNCHANGED <<loc_page, loc_text, loc_context, best_match, chatVars, pipeVars, classVars>>

\* no call of the locator
LocIdle == InitLoc({<<>>}, {<<>>}, {<<>>})

-----------------------------------------------------------------------------
(* Specifications *)

SessionStep(s) ==
    \/ UploadRun(s)
    \/ PromptRun(s, LIMIT + MaxUnanswered + MaxRejected)
    \/ WriteFile(s)
    \/ LoadAndIndex(s)
    \/ IndexFails(s)
    \/ NoChat(s)
    \/ ChatRejected(s)
    \/ ChatAnswered(s)
    \/ ChatQueryFails(s)
    \/ ChatNoDocument(s)

\* one chat session, followed through the question limit
Next == SessionStep("s1")

Init == InitChat /\ PipeIdle /\ ClassIdle /\ LocIdle

Spec == Init /\ [][Next]_vars

\* every session, each with a few prompts: the sessions' runs interleave at
\* the steps of index_documents
ConcurrentStep(s) ==
    \/ UploadRun(s)
    \/ PromptRun(s, MaxSessionPrompts)
    \/ WriteFile(s)
    \/ LoadAndIndex(s)
    \/ IndexFails(s)
    \/ NoChat(s)
    \/ ChatAnswered(s)
    \/ ChatQueryFails(s)
    \/ ChatNoDocument(s)

NextSessions == \E s \in Sessions : ConcurrentStep(s)

SpecSessions == Init /\ [][NextSessions]_vars

\* pages of the uploaded PDF: without text, with one line, with two lines
Pages ==
    {<<>>} \cup {<<l>> : l \in LineIds}
           \cup {<<p[1], p[2]>> : p \in {q \in LineIds \X LineIds : q[1] < q[2]}}
\* the PDFs of at most MaxPages pages
Pdfs == UNION {[1..n -> Pages] : n \in 0..MaxPages}

\* the text collection and the regex pass over every PDF of the bounds
NextRegex == CollectAndRegex

InitRegex == InitChat /\ InitPipe(Pdfs) /\ ClassIdle /\ LocIdle

SpecRegex == InitRegex /\ [][NextRegex]_vars

\* the PDFs of one page holding one line, and the PDF without pages
OneLinePdfs == {<<>>} \cup {<<<<l>>>> : l \in LineIds}

\* one run of the extraction page
NextPipeline ==
    \/ CollectAndRegex
    \/ LlmPassNotes
    \/ LlmPassDoc
    \/ MergeCall
    \/ Annotate
    \/ Render

InitPipeline == InitChat /\ InitPipe(OneLinePdfs) /\ ClassIdle /\ LocIdle

SpecPipeline == InitPipeline /\ [][NextPipeline]_vars

\* pages without text, of one line and of two lines, with and without note
\* lines and with a note line that starts with a blank
NotePages == {<<>>, <<1>>, <<4>>, <<1, 4>>, <<3, 5>>}

\* the PDFs of at most MaxPages of these pages
NotePdfs == UNION {[1..n -> NotePages] : n \in 0..MaxPages}

\* the text collection and the two raw passes
NextPasses ==
    \/ CollectAndRegex
    \/ LlmPassNotes
    \/ LlmPassDoc

InitPasses == InitChat /\ InitPipe(NotePdfs) /\ ClassIdle /\ LocIdle

SpecPasses == InitPasses /\ [][NextPasses]_vars

\* the material classifier on every value of the bounds
NextMaterial == ClassifyMaterial

InitMaterial == InitChat /\ PipeIdle /\ InitClass(MaterialValues) /\ LocIdle

SpecMaterial == InitMaterial /\ [][NextMaterial]_vars

\* the diameter classifier on every value of the bounds
NextDiameter == ClassifyDiameter

InitDiameter == InitChat /\ PipeIdle /\ InitClass(DiameterValues) /\ LocIdle

SpecDiameter == InitDiameter /\ [][NextDiameter]_vars

\* the thread classifier on every value of the bounds
NextThread == ClassifyThread

InitThread == InitChat /\ PipeIdle /\ InitClass(ThreadValues) /\ LocIdle

SpecThread == InitThread /\ [][NextThread]_vars

\* find_text_locations on every page, text and context of the bounds
NextLocator ==
    \/ ExactPass
    \/ FuzzyPass
    \/ ReturnBest

InitLocator == InitChat /\ PipeIdle /\ ClassIdle /\ InitLoc(LocPages, Snippets, Contexts)

SpecLocator == InitLocator /\ [][NextLocator]_vars

-----------------------------------------------------------------------------
(* Claims about the chat page *)

\* the run of session s handles a prompt in this step
HandlesPrompt(s) == prompt_no'[s] = prompt_no[s] + 1

\* C1: once question_count is 15, every further prompt is rejected: the query
\* engine is not called for it, question_count is not incremented and the
\* stored messages are left as they are.
C1_RejectedAtLimit ==
    [][\A s \in Sessions :
          (question_count[s] = LIMIT /\ HandlesPrompt(s))
              => /\ last_outcome'[s] = "limit"
                 /\ query_calls'[s] = query_calls[s]
                 /\ question_count'[s] = question_count[s]
                 /\ messages'[s] = messages[s]]_vars

\* C1, its case: 15 questions were accepted and a later prompt was rejected
C1_Witness ==
    /\ question_count["s1"] = LIMIT
    /\ prompt_no["s1"] > LIMIT
    /\ last_outcome["s1"] = "limit"
    /\ Len(messages["s1"]) >= 2 * LIMIT

\* C2, as stated: whatever the earlier prompts were, the 16th prompt submitted
\* and every later one is rejected with the limit message.
C2_SixteenthPromptRejected ==
    \A s \in Sessions : prompt_no[s] >= LIMIT + 1 => last_outcome[s] = "limit"

\* the prompts of session s answered so far: the stored assistant messages
Answered(s) == Cardinality({i \in 1..Len(messages[s]) : messages[s][i].role = "assistant"})

\* C2, amended: a prompt is rejected with the limit message exactly when 15
\* prompts of the session have been answered before it, and the engine is not
\* queried for a rejected prompt; prompts that met no document or a failing
\* query are not counted.
C2_RejectedIffFifteenAnswered ==
    [][\A s \in Sessions :
          HandlesPrompt(s)
              => /\ (last_outcome'[s] = "limit") <=> (Answered(s) >= LIMIT)
                 /\ (last_outcome'[s] = "limit") => (query_calls'[s] = query_calls[s])]_vars

\* C2, its case: prompts went unanswered, so that the 16th prompt submitted
\* was answered, and the prompt after the 15th answer was rejected
C2_Witness ==
    /\ prompt_no["s1"] > LIMIT + 1
    /\ last_outcome["s1"] = "limit"
    /\ Answered("s1") = LIMIT
    /\ Len(messages["s1"]) > 2 * LIMIT

\* C3, as stated: the documents indexed into a session's query engine are
\* exactly the files that session uploaded and wrote.
C3_EngineHoldsOwnFilesOnly ==
    \A s \in Sessions :
        query_engine[s] # None => query_engine[s].docs = written[s]

-----------------------------------------------------------------------------
(* Claims about the extraction page *)

CallNames == {calls[i].name : i \in 1..Len(calls)}
RawPasses == {"notes_extraction", "doc_extraction"}
AfterMergeCall == {"annotate", "render", "done", "aborted"}

\* C4, as stated: whichever of the three model-backed calls fails, the merge
\* call included, no unhandled exception ends the run.
C4_NoCallFailureEndsTheRun ==
    failed_calls # {} => raised = "nothing"

\* the result variable of a raw pass
ResultOf(name) == IF name = "notes_extraction" THEN notes_data ELSE doc_data

\* C5: a raw pass that fails returns an error object carrying the failure
\* message instead of raising, the sibling raw pass is still executed, and the
\* merge call is still issued with that error object in its input.
C5_RawFailureIsCaptured ==
    \A f \in failed_calls :
        f.call \in RawPasses
            => /\ ResultOf(f.call) = [error |-> f.msg]
               /\ raised # "nothing" => "merged_fields" \in CallNames
               /\ ppc \notin {"notes", "doc"} => RawPasses \subseteq CallNames
               /\ ppc \in AfterMergeCall
                     => /\ "merged_fields" \in CallNames
                        /\ merge_prompt.notes_llm = notes_data
                        /\ merge_prompt.doc_llm = doc_data

\* C5, its case: the notes pass failed, the document pass ran and returned a
\* record, and the merge call was issued with the error object
C5_Witness ==
    /\ ppc \in AfterMergeCall
    /\ \E f \in failed_calls : f.call = "notes_extraction" /\ f.msg \in ErrorMessages
    /\ \A f \in failed_calls : f.call = "notes_extraction"
    /\ "error" \in DOMAIN merge_prompt.notes_llm
    /\ merge_prompt.doc_llm = RecordFull

\* an object has every required key and, in a closed schema, no other key
ObjectConforms(obj, schema) ==
    /\ Range(schema.required) \subseteq DOMAIN obj
    /\ schema.additionalProperties \/ DOMAIN obj \subseteq DOMAIN schema.properties

\* a record is valid against a schema of the shape of shared_schema
RecordConforms(r, schema) ==
    /\ ObjectConforms(r, schema)
    /\ \A k \in DOMAIN r \cap DOMAIN schema.properties :
          /\ ObjectConforms(r[k], schema.properties[k])
          /\ "sources" \in DOMAIN r[k]
                => \A i \in 1..Len(r[k].sources) :
                      ObjectConforms(r[k].sources[i],
                                     schema.properties[k].properties.sources.items)

\* C6, as stated: whatever the merge call returns, a merged record that is
\* rendered is valid against the closed schema; a response that violates the
\* schema is never rendered.
C6_RenderedRecordIsValid ==
    rendered # <<>> => RecordConforms(merged_fields, shared_schema)

NineKeys == {"material", "finish", "general_tolerance", "surface_roughness", "threads",
             "diameters", "weld_requirements", "standards", "cost_drivers"}

\* an object schema with exactly these properties, all required, and closed
ClosedObject(schema, keys) ==
    /\ DOMAIN schema.properties = keys
    /\ Range(schema.required) = keys
    /\ schema.additionalProperties = FALSE

ClosedAtEveryLevel(schema) ==
    /\ ClosedObject(schema, NineKeys)
    /\ \A k \in DOMAIN schema.properties :
          /\ ClosedObject(schema.properties[k], {"values", "notes", "sources"})
          /\ ClosedObject(schema.properties[k].properties.sources.items,
                          {"text", "value", "context"})

\* C7: shared_schema is closed at its three levels (the nine field keys; values,
\* notes and sources; text, value and context; all required, no additional
\* properties), and every model-backed call sends that schema.
C7_SchemaClosedAndShared ==
    /\ ClosedAtEveryLevel(shared_schema)
    /\ \A i \in 1..Len(calls) :
          /\ ClosedAtEveryLevel(calls[i].schema)
          /\ calls[i].schema = calls[1].schema
          /\ calls[i].strict

\* C7, its case: the two raw passes and the merge call were issued
C7_Witness ==
    /\ Len(calls) = 3
    /\ CallNames = RawPasses \cup {"merged_fields"}

\* the set the regex pass holds for a label
RegexSet(label) ==
    IF label \in DOMAIN regex_extracted THEN regex_extracted[label] ELSE {}

\* the whole matched texts of a pattern in the document, "ING" left out
WholeMatches(label) ==
    {m.whole : m \in Range(Matches(label, all_text))} \ {ING}

\* C8, as stated: the regex pass puts into a field's set exactly the distinct
\* whole matched substrings of the document text, except "ING".
C8_SetsHoldWholeMatches ==
    ppc = "notes" => \A label \in Range(PatternLabels) : RegexSet(label) = WholeMatches(label)

\* C9: after the regex pass no field's set holds a string that equals "ING"
\* when letter case is ignored.
C9_NoINGInAnySet ==
    \A label \in DOMAIN regex_extracted :
        \A x \in regex_extracted[label] : Upper(x) # ING

\* C9, its case: the pass ran over a text in which WELD(ING)? captured "ing"
\* and in which another match was kept
C9_Witness ==
    /\ ppc = "notes"
    /\ \E m \in Range(Matches("weld_notes", all_text)) : m.groups[1] = <<"i", "n", "g">>
    /\ "material" \in DOMAIN regex_extracted

-----------------------------------------------------------------------------
(* Claims about the field classifiers *)

NamesStainless316(v) == Contains(Upper(v), STAINLESS) /\ Contains(Upper(v), G316)

\* C10, as stated: every string that contains both STAINLESS and 316, in any
\* letter case and with anything around them, is classified as exactly
\* "Marine Grade Stainless".
C10_Stainless316IsMarine ==
    (cpc = "classified" /\ NamesStainless316(value))
        => result = "Marine Grade Stainless"

\* C10, amended: every string that contains both STAINLESS and 316 and does not
\* contain 304 is classified as exactly "Marine Grade Stainless"; with 304 in
\* it the grade 304 is found first and the label is "Standard Stainless".
C10_Stainless316Without304IsMarine ==
    (cpc = "classified" /\ NamesStainless316(value))
        => result = (IF Contains(value, G304) THEN "Standard Stainless"
                     ELSE "Marine Grade Stainless")

\* C10, its case: a lower-case stainless with 316 and other content around
\* them was classified
C10_Witness ==
    /\ cpc = "classified"
    /\ NamesStainless316(value)
    /\ ~Contains(value, STAINLESS)
    /\ ~Contains(value, G304)
    /\ Len(value) > Len(STAINLESS) + Len(G316)
    /\ result = "Marine Grade Stainless"

\* the value holds "SS" somewhere else than at the end of the word BRASS
SSOutsideBrass(u) ==
    \E i \in 1..(Len(u) - 1) :
        /\ SubSeq(u, i, i + 1) = SS
        /\ ~(i >= 4 /\ SubSeq(u, i - 3, i + 1) = BRASS)

\* what a value names, in any letter case
NamesStainless(v) == Contains(Upper(v), STAINLESS) \/ SSOutsideBrass(Upper(v))
NamesAluminum(v) == Contains(Upper(v), ALUMINUM) \/ Contains(Upper(v), AL)
NamesBrass(v) == Contains(Upper(v), BRASS)
NamesBronze(v) == Contains(Upper(v), BRONZE)
NamesPEEK(v) == Contains(Upper(v), PEEK)

\* C11: classify_material returns one label, of the first category that
\* matches in the order stainless, aluminum, brass, bronze, PEEK: a value that
\* names brass and neither stainless nor aluminum is labelled
\* "Decorative/Corrosion Resistant", a value naming only bronze
\* "High Strength/Corrosion Resistant", a value naming only PEEK
\* "High Performance Plastic", and a value naming none of the five gets no
\* label.
C11_FirstCategoryWins ==
    (cpc = "classified" /\ ~NamesStainless(value) /\ ~NamesAluminum(value))
        => result = (IF NamesBrass(value) THEN "Decorative/Corrosion Resistant"
                     ELSE IF NamesBronze(value) THEN "High Strength/Corrosion Resistant"
                     ELSE IF NamesPEEK(value) THEN "High Performance Plastic"
                     ELSE NoLabel)

\* the numbers of a diameter value, with their units
DiameterMatches == finditer(value, 1, TRUE)

\* the number n of a match in inches, as the fraction it is: n / 25.4 for a
\* number in millimetres (the unit of a number without one), n for inches
InchesOf(m) ==
    IF m.unit = NoUnit \/ Lower(m.unit) = UnitMm
    THEN [num |-> Hundredths(m.number), den |-> 2540]
    ELSE [num |-> Hundredths(m.number), den |-> 100]

\* the band of a number of inches, lower bound inclusive
BandOf(q) ==
    IF 6 * q.den <= q.num /\ q.num <= 8 * q.den THEN {"Class A Pipe"}
    ELSE IF 8 * q.den < q.num /\ q.num <= 10 * q.den THEN {"Class B Pipe"}
    ELSE IF 10 * q.den < q.num /\ q.num <= 12 * q.den THEN {"Class C Pipe"}
    ELSE {}

\* C12: every number n of a diameter value is compared in inches (n / 25.4 for
\* millimetres) with the bands [6, 8], (8, 10] and (10, 12]; a number adds the
\* label of its band and nothing outside [6, 12]; the result is the union of
\* the labels over the numbers, and None when no number is in a band.
C12_DiameterBands ==
    cpc = "classified"
        => result = (LET labels == UNION {BandOf(InchesOf(DiameterMatches[i]))
                                            : i \in 1..Len(DiameterMatches)}
                     IN  IF labels = {} THEN NoList ELSE ListOf(labels))

Stud == <<"s", "t", "u", "d">>
Anchor == <<"a", "n", "c", "h", "o", "r">>
Hole == <<"h", "o", "l", "e">>
Bolt == <<"b", "o", "l", "t">>

\* the duty-type keywords
DutyKeywords == {Stud, Anchor, Hole}

\* a value holds a keyword, in any letter case
HasKeyword(v, k) == Contains(Lower(v), k)

\* the keyword of a value that holds one keyword only
DetectsTheKeyword ==
    \A k \in DutyKeywords :
        (HasKeyword(value, k) /\ \A o \in (DutyKeywords \cup {Bolt}) \ {k} : ~HasKeyword(value, o))
            => thread_type(value) = k

NoDutyKeyword == \A k \in DutyKeywords : ~HasKeyword(value, k)

\* C13, as stated: the duty-type keyword (stud, anchor, hole) is found in any
\* letter case, and a thread value without a duty-type keyword has the type
\* "unknown" and no classification, whatever numbers it holds.
C13_NoKeywordIsUnknown ==
    cpc = "classified"
        => /\ DetectsTheKeyword
           /\ NoDutyKeyword => (thread_type(value) = unknown /\ result = NoList)

\* C13, amended: the duty-type keyword is found in any letter case, and a
\* thread value without stud, anchor or hole has the type "unknown", or "bolt"
\* when it holds the keyword bolt, and no classification, whatever numbers it
\* holds.
C13_NoKeywordIsUnclassified ==
    cpc = "classified"
        => /\ DetectsTheKeyword
           /\ NoDutyKeyword
                => /\ thread_type(value) = (IF HasKeyword(value, Bolt) THEN Bolt ELSE unknown)
                   /\ result = NoList

\* C13, its case: a value of several numbers and no keyword was classified
C13_Witness ==
    /\ cpc = "classified"
    /\ NoDutyKeyword
    /\ ~HasKeyword(value, Bolt)
    /\ Len(finditer(value, 1, FALSE)) >= 2
    /\ thread_type(value) = unknown
    /\ result = NoList

\* the numbers of a thread value, with their units in any letter case
ThreadMatches == finditer(value, 1, TRUE)

\* the size of a match in millimetres, as the fraction it is: n * 25.4 for a
\* number in inches, n for millimetres (the unit of a number without one)
MillimetresOf(m) ==
    IF Lower(m.unit) \in {UnitIn, UnitInch}
    THEN [num |-> Hundredths(m.number) * 254, den |-> 1000]
    ELSE [num |-> Hundredths(m.number), den |-> 100]

\* the label of a size of a duty type
DutyOf(type, q) ==
    IF type = Stud
    THEN IF q.num <= 20 * q.den THEN "Light Duty Stud" ELSE "Heavy Duty Stud"
    ELSE IF type = Anchor
    THEN IF q.num <= 25 * q.den THEN "Standard Anchor" ELSE "Heavy Duty Anchor"
    ELSE IF q.num <= 20 * q.den THEN "Standard Hole" ELSE "Large Hole"

\* C14: for a thread value of duty type stud, anchor or hole every numeric
\* size is taken in millimetres, a size in inches (in any letter case of the
\* unit) multiplied by 25.4, and gets the label of its side of the threshold:
\* 20 mm for studs and holes, 25 mm for anchors.
C14_SizesInMillimetres ==
    (cpc = "classified" /\ thread_type(value) \in DutyKeywords)
        => result = (LET labels == {DutyOf(thread_type(value), MillimetresOf(ThreadMatches[i]))
                                        : i \in 1..Len(ThreadMatches)}
                     IN  IF labels = {} THEN NoList ELSE ListOf(labels))

-----------------------------------------------------------------------------
(* Claims about the source locator *)

\* the positions of the words that hold the text, in any letter case
Holding == {i \in 1..Len(loc_page) : Contains(Upper(loc_page[i].text), Upper(loc_text))}

First(positions) == CHOOSE i \in positions : \A j \in positions : i <= j

\* the box (x0, top, x1, bottom) of the word at a position
BoxAt(i) ==
    [x0 |-> loc_page[i].x0, y0 |-> loc_page[i].top,
     x1 |-> loc_page[i].x1, y1 |-> loc_page[i].bottom]

\* C15: on a page with a word that holds the text as a case-insensitive
\* substring, find_text_locations returns the box of the first such word in
\* page order, and the fuzzy pass is not executed.
C15_FirstExactMatchReturned ==
    Holding # {}
        => /\ lpc \in {"exact", "returned"}
           /\ best_match = NoWord
           /\ lpc = "returned" => location = BoxAt(First(Holding))

\* C15, its case: two words hold the text in another letter case, after a
\* word that does not, and the box of the first of the two was returned
C15_Witness ==
    /\ lpc = "returned"
    /\ Cardinality(Holding) >= 2
    /\ First(Holding) > 1
    /\ loc_text # <<>>
    /\ ~Contains(loc_page[First(Holding)].text, loc_text)
    /\ location = BoxAt(First(Holding))

\* the snippet words of the text that a word holds, in any letter case
WordsHeld(i) ==
    Cardinality({k \in 1..Len(split(loc_text)) :
                    Contains(Upper(loc_page[i].text), Upper(split(loc_text)[k]))})

\* the first of the words with the highest score
Highest ==
    First({i \in 1..Len(loc_page) : \A j \in 1..Len(loc_page) : WordsHeld(j) <= WordsHeld(i)})

\* what the fuzzy pass returns
FuzzyResult ==
    IF \E i \in 1..Len(loc_page) : WordsHeld(i) > 0 THEN BoxAt(Highest) ELSE NotFound

\* C16, as stated: whenever the exact pass finds nothing the fuzzy pass runs,
\* whatever the context, the empty one included: the box of the word that
\* holds the most snippet words is returned, the first such word on a tie,
\* and "not found" only when every word holds none.
C16_FuzzyPassAlwaysRuns ==
    (Holding = {} /\ lpc = "returned") => location = FuzzyResult

\* C16, amended: whenever the exact pass finds nothing and the context is not
\* empty the fuzzy pass runs: the box of the word that holds the most snippet
\* words is returned, the first such word on a tie, and "not found" when
\* every word holds none; with an empty context the fuzzy pass is skipped and
\* "not found" is returned.
C16_FuzzyPassRunsWithContext ==
    Holding = {}
        => IF loc_context # <<>>
           THEN /\ lpc # "skipped"
                /\ lpc = "returned" => location = FuzzyResult
           ELSE /\ lpc # "scored"
                /\ lpc = "returned" => location = NotFound

\* C16, its case: the exact pass found nothing, and the fuzzy pass returned
\* the box of the first of two words with the highest score, which stands
\* after a word with a lower score above 0
C16_Witness ==
    /\ lpc = "returned"
    /\ Holding = {}
    /\ loc_context # <<>>
    /\ Len(loc_page) > 1
    /\ Highest > 1
    /\ \E i \in 1..(Highest - 1) : WordsHeld(i) > 0
    /\ \E j \in (Highest + 1)..Len(loc_page) : WordsHeld(j) = WordsHeld(Highest)
    /\ location = BoxAt(Highest)

-----------------------------------------------------------------------------
(* Claims about the order and the inputs of the model-backed calls *)

CallOrder == <<"notes_extraction", "doc_extraction", "merged_fields">>

\* a raw pass has returned a record or an error value
Completed(data) == data # NoRecord /\ (DOMAIN data = {"error"} \/ data \in ConformingRecords)

\* C17: the model-backed calls of a run are issued one after another, each
\* once: the notes pass, the document pass, the merge call. Both raw passes
\* have returned, a record or an error value, when the merge call is issued;
\* the merge call is issued once and its payload carries both raw results
\* and the regex sets.
C17_CallsOneAfterAnother ==
    /\ Len(calls) <= Len(CallOrder)
    /\ \A i \in 1..Len(calls) : calls[i].name = CallOrder[i]
    /\ Len(calls) >= 1 => Completed(notes_data)
    /\ Len(calls) >= 2 => Completed(doc_data)
    /\ ppc = "merge" => Len(calls) = 2
    /\ ppc \in {"annotate", "render", "done"} => Len(calls) = 3
    /\ Len(calls) = 3
          => /\ calls[3].content.notes_llm = notes_data
             /\ calls[3].content.doc_llm = doc_data
             /\ calls[3].content.regex = regex_extracted
             /\ merge_prompt = calls[3].content

\* C17, its case: a run came to its end with the three calls issued, the
\* notes pass having returned an error value, the document pass a record, and
\* the regex pass having found something
C17_Witness ==
    /\ ppc = "done"
    /\ Len(calls) = 3
    /\ DOMAIN notes_data = {"error"}
    /\ doc_data = RecordFull
    /\ DOMAIN regex_extracted # {}
    /\ calls[3].content.regex = regex_extracted

\* the lines of the document, over all pages in document order
DocumentLines ==
    Concat([p \in 1..Len(pdf) |-> [i \in 1..Len(pdf[p]) |-> Catalogue[pdf[p][i]].text]])

\* a line holds NOTE, WELD, COATING or SURFACE, in any letter case
HoldsNoteKeyword(line) ==
    \E k \in {<<"N", "O", "T", "E">>, <<"W", "E", "L", "D">>,
              <<"C", "O", "A", "T", "I", "N", "G">>, <<"S", "U", "R", "F", "A", "C", "E">>} :
        \E i \in 1..Len(line) :
            /\ i + Len(k) - 1 <= Len(line)
            /\ \A j \in 1..Len(k) : UpperChar(line[i + j - 1]) = k[j]

\* the flagged lines of the document, each without its surrounding blanks
FlaggedLines ==
    LET flagged == SelectSeq(DocumentLines, HoldsNoteKeyword)
    IN  [i \in 1..Len(flagged) |-> Strip(flagged[i])]

\* C18: the text given to the notes pass is made of exactly the lines of the
\* document, over all pages and in document order, each stripped, that hold
\* NOTE, WELD, COATING or SURFACE in any letter case; the text given to the
\* full-text pass is made of every line.
C18_NotesPassGetsFlaggedLines ==
    \A i \in 1..Len(calls) :
        /\ calls[i].name = "notes_extraction" => calls[i].content = join(FlaggedLines)
        /\ calls[i].name = "doc_extraction" => calls[i].content = join(DocumentLines)

\* C18, its case: both passes were issued for a document of two pages with
\* flagged lines on both, one of them written in lower case after a blank,
\* and with a line that is not flagged
C18_Witness ==
    /\ Len(calls) = 2
    /\ Len(pdf) = 2
    /\ \A p \in 1..2 : \E i \in 1..Len(pdf[p]) : HoldsNoteKeyword(Catalogue[pdf[p][i]].text)
    /\ Len(FlaggedLines) < Len(DocumentLines)
    /\ \E i \in 1..Len(DocumentLines) :
          /\ HoldsNoteKeyword(DocumentLines[i])
          /\ Strip(DocumentLines[i]) # DocumentLines[i]
          /\ ~IsNoteLine_case_sensitive(DocumentLines[i])
    /\ calls[1].content = join(FlaggedLines)
    /\ calls[1].content # calls[2].content

-----------------------------------------------------------------------------
(* Claims about the state of a chat session *)

\* the user messages stored in the transcript of session s
Asked(s) == Cardinality({i \in 1..Len(messages[s]) : messages[s][i].role = "user"})

\* C19: in every state of a chat session question_count is between 0 and 15,
\* equals the number of assistant messages of the transcript and is at most
\* the number of its user messages; and question_count never decreases.
C19_CountIsTheAnswers ==
    /\ [](\A s \in Sessions :
            /\ question_count[s] \in 0..15
            /\ question_count[s] = Answered(s)
            /\ question_count[s] <= Asked(s))
    /\ [][\A s \in Sessions : question_count'[s] >= question_count[s]]_vars

\* C19, its case: fifteen prompts were answered, others met a missing
\* document or a failing query, and the last prompt was rejected
C19_Witness ==
    /\ pc["s1"] = "idle"
    /\ question_count["s1"] = 15
    /\ Answered("s1") = 15
    /\ Asked("s1") > 15
    /\ last_outcome["s1"] = "limit"
    /\ query_engine["s1"] # None

\* C20: the query engine of a session is built at most once. Indexing starts
\* only on a run with uploaded files and the engine still None; once the
\* engine is set, no run, prompt or change of the uploaded files replaces or
\* clears it, and no file uploaded later is written or indexed.
C20_EngineBuiltOnce ==
    [][\A s \in Sessions :
          /\ query_engine[s] # None
                => /\ query_engine'[s] = query_engine[s]
                   /\ written'[s] = written[s]
                   /\ pc'[s] # "write"
          /\ query_engine'[s] # query_engine[s]
                => /\ query_engine[s] = None
                   /\ uploaded_files[s] # {}
                   /\ query_engine'[s].docs = load_data(disk)
          /\ (pc[s] = "idle" /\ pc'[s] = "write")
                => /\ uploaded_files'[s] # {}
                   /\ query_engine[s] = None]_vars

\* C20, its case: the engine was built, a file was uploaded afterwards that
\* the engine does not hold, and a prompt was answered
C20_Witness ==
    /\ pc["s1"] = "idle"
    /\ query_engine["s1"] # None
    /\ \E f \in uploaded_files["s1"] : f \notin query_engine["s1"].docs /\ f \notin written["s1"]
    /\ last_outcome["s1"] = "answered"

====
